---- MODULE Spec2Model ----
(***************************************************************************)
(* Churn decision tool: the analytics engine of the two page scripts       *)
(*   src/unnamed/part_000   (business page: ROI, baselines, curve, text)   *)
(*   src/decision_tool.js   (basic page: computePolicy with precision and  *)
(*                           recall)                                       *)
(* Both scripts keep the module-level state rows / hasActual (and baseRate *)
(* on the business page), build it once in init() after the fetch, and     *)
(* recompute every displayed value in render() on each input event.        *)
(*                                                                         *)
(* JavaScript Numbers are modelled as exact extended rationals             *)
(* [n |-> numerator, d |-> denominator]: d > 0 is a finite value in lowest *)
(* terms, d = 0 is NaN (n = 0), +Infinity (n = 1) or -Infinity (n = -1).   *)
(* Binary rounding of doubles is not modelled.  Capacities are integers.   *)
(***************************************************************************)
EXTENDS Integers, Sequences, FiniteSets

VARIABLES page, pc, rows, hasActual, baseRate,
          maxContacts, contactCost, churnLoss, saveRate,
          listeners, view

vars == <<page, pc, rows, hasActual, baseRate,
          maxContacts, contactCost, churnLoss, saveRate, listeners, view>>

(***************************************************************************)
(* Bounds                                                                  *)
(***************************************************************************)
MaxRows == 2
MaxLargeRows == 201

(***************************************************************************)
(* Number arithmetic                                                       *)
(***************************************************************************)
Abs(i) == IF i < 0 THEN -i ELSE i

Sign(i) == IF i < 0 THEN -1 ELSE IF i > 0 THEN 1 ELSE 0

RECURSIVE GCD(_, _)
GCD(a, b) == IF b = 0 THEN a ELSE GCD(b, a % b)

Norm(n, d) ==
    IF d = 0 THEN [n |-> Sign(n), d |-> 0]
    ELSE IF d = 1 THEN [n |-> n, d |-> 1]
    ELSE LET g == GCD(Abs(n), Abs(d))
         IN  [n |-> (Sign(d) * n) \div g, d |-> Abs(d) \div g]

Num(i) == [n |-> i, d |-> 1]

Frac(a, b) == Norm(a, b)

NaN == [n |-> 0, d |-> 0]

null == [null |-> TRUE]

undefined == [undefined |-> TRUE]

IsNumber(x) == DOMAIN x = {"n", "d"}

IsFinite(x) == x.d # 0

IsNaN(x) == x.d = 0 /\ x.n = 0

Mul(a, b) == Norm(a.n * b.n, a.d * b.d)

Add(a, b) ==
    IF a.d = 0 /\ b.d = 0
    THEN (IF a = b THEN a ELSE NaN)
    ELSE Norm(a.n * b.d + b.n * a.d, a.d * b.d)

Neg(a) == [n |-> -a.n, d |-> a.d]

Sub(a, b) == Add(a, Neg(b))

AbsNum(a) == [n |-> Abs(a.n), d |-> a.d]

Div(a, b) == Mul(a, Norm(Sign(b.n) * b.d, Abs(b.n)))

Lt(a, b) ==
    /\ ~IsNaN(a) /\ ~IsNaN(b)
    /\ IF a.d = 0 /\ b.d = 0 THEN a.n < b.n ELSE a.n * b.d < b.n * a.d

Le(a, b) ==
    /\ ~IsNaN(a) /\ ~IsNaN(b)
    /\ IF a.d = 0 /\ b.d = 0 THEN a.n <= b.n ELSE a.n * b.d <= b.n * a.d

MinI(a, b) == IF a < b THEN a ELSE b

MaxI(a, b) == IF a > b THEN a ELSE b

(***************************************************************************)
(* Parsed CSV cells.  A cell is the trimmed text of one field; a column    *)
(* the header does not name reads as undefined.                            *)
(***************************************************************************)
Cell(t) == [txt |-> t]

RiskCells == {Cell("n/a"), Cell("0.5")}

LabelCells == {Cell(""), Cell("0"), Cell("1")}

\* Number(x): a Number is itself, the cell texts above convert as in
\* JavaScript, anything else (undefined, other text) is NaN
Number(x) ==
    CASE IsNumber(x)      -> x
      [] x = Cell("")     -> Num(0)
      [] x = Cell("0")    -> Num(0)
      [] x = Cell("1")    -> Num(1)
      [] x = Cell("0.5")  -> Frac(1, 2)
      [] OTHER            -> NaN

toNumber(x, fallback) ==
    LET n == Number(x) IN IF IsFinite(n) THEN n ELSE fallback

\* clamp without the Math.max: a negative capacity is not raised to 0
clampNoLower(n, lo, hi) == MinI(hi, n)

clamp(n, lo, hi) == MaxI(lo, MinI(hi, n))

(***************************************************************************)
(* Program constants                                                       *)
(***************************************************************************)
CurveSteps == 40
CurveMinStep == 50
InterpMinStep == 200
InterpDivisor == 50
BreakevenCeiling == 10
ResetContacts == 1000
DefaultContacts == 1000
DefaultContactCost == 20
DefaultChurnLoss == 200

(***************************************************************************)
(* Engine of src/unnamed/part_000.  The functions read the module-level    *)
(* variables rows, hasActual and baseRate; here they take them as the      *)
(* record S = [page, rows, hasActual, baseRate], so that a handler can     *)
(* evaluate them on the state it has just assigned.                        *)
(***************************************************************************)
IsChurn(r) == r.actual_churn = Num(1)

\* for (const r of ...) count += (r.actual_churn === 1 ? 1 : 0)
CountChurn(s) == Cardinality({i \in 1..Len(s) : IsChurn(s[i])})

\* for (const r of contacted) ... else fp += 1
CountNotChurn(s) == Cardinality({i \in 1..Len(s) : ~IsChurn(s[i])})

\* sum of churn_probability over s[lo..hi] (exact, so the order of the
\* additions does not matter)
RECURSIVE SumRange(_, _, _)
SumRange(s, lo, hi) ==
    IF lo > hi THEN Num(0)
    ELSE IF lo = hi THEN Add(Num(0), s[lo].churn_probability)
    ELSE LET mid == (lo + hi) \div 2
         IN  Add(SumRange(s, lo, mid), SumRange(s, mid + 1, hi))

SumProb(s) == SumRange(s, 1, Len(s))

\* Array.prototype.slice: a negative index counts from the end, an index past
\* the end stops at the end
SliceIndex(s, k) == IF k < 0 THEN MaxI(Len(s) + k, 0) ELSE MinI(k, Len(s))

slice(s, from, to) == SubSeq(s, SliceIndex(s, from) + 1, SliceIndex(s, to))

\* An array built element by element, as the array it is
Array(f) == SubSeq(f, 1, Len(f))

\* expectedTP that ignores the labels and always sums the probabilities
expectedTPAlwaysSum(S, contacted) == SumProb(contacted)

expectedTP(S, contacted) ==
    IF S.hasActual THEN Num(CountChurn(contacted))
    ELSE SumProb(contacted)

profitFor(S, contactedCount, cCost, cLoss, sRate) ==
    LET N         == clamp(contactedCount, 0, Len(S.rows))
        contacted == slice(S.rows, 0, N)
        tpExp     == expectedTP(S, contacted)
        cost      == Mul(Num(N), cCost)
        profit    == Sub(Mul(tpExp, Mul(sRate, cLoss)), cost)
    IN  [profit |-> profit, cost |-> cost, tpExp |-> tpExp,
         contacted |-> contacted]

randomStrategy(S, contactedCount, cCost, cLoss, sRate) ==
    LET N      == clamp(contactedCount, 0, Len(S.rows))
        tpExp  == Mul(Num(N), IF S.baseRate = null THEN Num(0) ELSE S.baseRate)
        cost   == Mul(Num(N), cCost)
        profit == Sub(Mul(tpExp, Mul(sRate, cLoss)), cost)
    IN  [profit |-> profit, cost |-> cost, tpExp |-> tpExp]

doNothingStrategy == [profit |-> Num(0), cost |-> Num(0), tpExp |-> Num(0)]

\* roi that treats only a negative cost as not applicable
roiNegativeOnly(profit, cost) ==
    IF Lt(cost, Num(0)) THEN null ELSE Div(profit, cost)

roi(profit, cost) ==
    IF Le(cost, Num(0)) THEN null ELSE Div(profit, cost)

\* breakEvenSaveRate that leaves churnLoss out of the denominator
breakEvenSaveRateNoLoss(tpExp, contacts, cLoss, cCost) ==
    IF Le(tpExp, Num(0)) \/ Le(cLoss, Num(0)) THEN null
    ELSE Div(Mul(Num(contacts), cCost), tpExp)

breakEvenSaveRate(tpExp, contacts, cLoss, cCost) ==
    IF Le(tpExp, Num(0)) \/ Le(cLoss, Num(0)) THEN null
    ELSE Div(Mul(Num(contacts), cCost), Mul(tpExp, cLoss))

\* computePrecisionRecall whose recall divides by the contacted count
computePrecisionRecallOverContacted(S, contacted) ==
    IF ~S.hasActual
    THEN [precision |-> null, recall |-> null, tp |-> null, fp |-> null,
          totalPos |-> null]
    ELSE LET totalPos == CountChurn(S.rows)
             tp       == CountChurn(contacted)
             fp       == CountNotChurn(contacted)
         IN  [precision |-> IF tp + fp > 0 THEN Frac(tp, tp + fp) ELSE Num(0),
              recall    |-> IF tp + fp > 0 THEN Frac(tp, tp + fp) ELSE Num(0),
              tp |-> tp, fp |-> fp, totalPos |-> totalPos]

\* computePrecisionRecall without the guards against a zero denominator
computePrecisionRecallUnguarded(S, contacted) ==
    IF ~S.hasActual
    THEN [precision |-> null, recall |-> null, tp |-> null, fp |-> null,
          totalPos |-> null]
    ELSE LET totalPos == CountChurn(S.rows)
             tp       == CountChurn(contacted)
             fp       == CountNotChurn(contacted)
         IN  [precision |-> Div(Num(tp), Num(tp + fp)),
              recall    |-> Div(Num(tp), Num(totalPos)),
              tp |-> tp, fp |-> fp, totalPos |-> totalPos]

computePrecisionRecall(S, contacted) ==
    IF ~S.hasActual
    THEN [precision |-> null, recall |-> null, tp |-> null, fp |-> null,
          totalPos |-> null]
    ELSE LET totalPos == CountChurn(S.rows)
             tp       == CountChurn(contacted)
             fp       == CountNotChurn(contacted)
         IN  [precision |-> IF tp + fp > 0 THEN Frac(tp, tp + fp) ELSE Num(0),
              recall    |-> IF totalPos > 0 THEN Frac(tp, totalPos) ELSE Num(0),
              tp |-> tp, fp |-> fp, totalPos |-> totalPos]

CurveStep(n) == MaxI(CurveMinStep, n \div CurveSteps)

RECURSIVE CurveLoop(_, _, _, _, _, _, _)
CurveLoop(S, cap, n, points, cCost, cLoss, sRate) ==
    IF cap <= n
    THEN CurveLoop(S, cap + CurveStep(n), n,
                   Append(points,
                          [capacity |-> cap,
                           profit |-> profitFor(S, cap, cCost, cLoss, sRate).profit]),
                   cCost, cLoss, sRate)
    ELSE points

\* computeProfitCurve without the forced last point
computeProfitCurveGridOnly(S, cCost, cLoss, sRate) ==
    LET n == Len(S.rows) IN
    IF n = 0 THEN <<>> ELSE CurveLoop(S, 0, n, <<>>, cCost, cLoss, sRate)

computeProfitCurve(S, cCost, cLoss, sRate) ==
    LET n == Len(S.rows) IN
    IF n = 0 THEN <<>>
    ELSE LET points == CurveLoop(S, 0, n, <<>>, cCost, cLoss, sRate)
         IN  IF points[Len(points)].capacity # n
             THEN Append(points,
                         [capacity |-> n,
                          profit |-> profitFor(S, n, cCost, cLoss, sRate).profit])
             ELSE points

\* the narrative comparing against the whole population instead of one step
\* further
interpretationTextWholePopulation(S, topN, cCost, cLoss, sRate) ==
    LET step    == MaxI(InterpMinStep, Len(S.rows) \div InterpDivisor)
        here    == profitFor(S, topN, cCost, cLoss, sRate)
        next    == profitFor(S, Len(S.rows), cCost, cLoss, sRate)
        delta   == Sub(next.profit, here.profit)
        roiHere == roi(here.profit, here.cost)
        be      == breakEvenSaveRate(here.tpExp, topN, cLoss, cCost)
    IN  IF Le(Num(0), here.profit)
        THEN [verdict  |-> "profitable",
              step     |-> step,
              increase |-> Le(Num(0), delta),
              amount   |-> IF Le(Num(0), delta) THEN delta ELSE AbsNum(delta),
              be       |-> be,
              roi      |-> roiHere]
        ELSE [verdict |-> "not profitable",
              levers  |-> <<"reduce contact cost", "increase save rate",
                            "focus on fewer customers">>]

interpretationText(S, topN, cCost, cLoss, sRate) ==
    LET step    == MaxI(InterpMinStep, Len(S.rows) \div InterpDivisor)
        here    == profitFor(S, topN, cCost, cLoss, sRate)
        next    == profitFor(S, MinI(Len(S.rows), topN + step), cCost, cLoss, sRate)
        delta   == Sub(next.profit, here.profit)
        roiHere == roi(here.profit, here.cost)
        be      == breakEvenSaveRate(here.tpExp, topN, cLoss, cCost)
    IN  IF Le(Num(0), here.profit)
        THEN [verdict  |-> "profitable",
              step     |-> step,
              increase |-> Le(Num(0), delta),
              amount   |-> IF Le(Num(0), delta) THEN delta ELSE AbsNum(delta),
              be       |-> be,
              roi      |-> roiHere]
        ELSE [verdict |-> "not profitable",
              levers  |-> <<"reduce contact cost", "increase save rate",
                            "focus on fewer customers">>]

renderExecSummary(S, topN, cCost, cLoss, sRate) ==
    LET model     == profitFor(S, topN, cCost, cLoss, sRate)
        pr        == computePrecisionRecall(S, model.contacted)
        breakeven == breakEvenSaveRate(model.tpExp, topN, cLoss, cCost)
    IN  [profitValue    |-> model.profit,
         costValue      |-> model.cost,
         roiValue       |-> roi(model.profit, model.cost),
         breakevenValue |-> IF breakeven = null THEN null
                            ELSE IF Lt(Num(BreakevenCeiling), breakeven)
                                 THEN [over |-> BreakevenCeiling]
                                 ELSE breakeven,
         top            |-> topN,
         churners       |-> IF S.hasActual THEN pr.tp ELSE model.tpExp,
         precision      |-> pr.precision]

renderComparison(S, topN, cCost, cLoss, sRate) ==
    LET model == profitFor(S, topN, cCost, cLoss, sRate)
        rnd   == randomStrategy(S, topN, cCost, cLoss, sRate)
        none  == doNothingStrategy
    IN  << [contacts |-> topN, tp |-> model.tpExp, profit |-> model.profit],
           [contacts |-> topN, tp |-> rnd.tpExp,   profit |-> rnd.profit],
           [contacts |-> 0,    tp |-> Num(0),      profit |-> Num(0)] >>

\* render() of src/unnamed/part_000: the values written to the page
renderTool(S, contactsValue, costValue, lossValue, rateValue) ==
    LET topN  == contactsValue
        cCost == toNumber(costValue, Num(DefaultContactCost))
        cLoss == toNumber(lossValue, Num(DefaultChurnLoss))
        sRate == toNumber(rateValue, Frac(1, 4))
    IN  [label          |-> topN,
         exec           |-> renderExecSummary(S, topN, cCost, cLoss, sRate),
         compare        |-> renderComparison(S, topN, cCost, cLoss, sRate),
         curve          |-> computeProfitCurve(S, cCost, cLoss, sRate),
         interpretation |-> interpretationText(S, topN, cCost, cLoss, sRate)]

(***************************************************************************)
(* Engine of src/decision_tool.js                                          *)
(***************************************************************************)
\* toNumber(r.actual_churn, 0) === 1
IsOne(r) == toNumber(r.actual_churn, Num(0)) = Num(1)

CountOne(s) == Cardinality({i \in 1..Len(s) : IsOne(s[i])})

\* contacted.reduce((acc, r) => acc + toNumber(r.churn_probability, 0), 0)
RECURSIVE ReduceRange(_, _, _)
ReduceRange(s, lo, hi) ==
    IF lo > hi THEN Num(0)
    ELSE IF lo = hi THEN Add(Num(0), toNumber(s[lo].churn_probability, Num(0)))
    ELSE LET mid == (lo + hi) \div 2
         IN  Add(ReduceRange(s, lo, mid), ReduceRange(s, mid + 1, hi))

ReduceProb(s) == ReduceRange(s, 1, Len(s))

computePolicy(S, topN, cCost, cLoss, sRate) ==
    LET N          == clamp(topN, 0, Len(S.rows))
        contacts   == N
        contacted  == slice(S.rows, 0, N)
        totalPos   == IF S.hasActual THEN CountOne(S.rows) ELSE 0
        tp         == IF S.hasActual THEN CountOne(contacted) ELSE 0
        fp         == IF S.hasActual THEN Len(contacted) - CountOne(contacted) ELSE 0
        expTP      == IF ~S.hasActual THEN ReduceProb(contacted)
                      ELSE Num(tp)
        profit     == Sub(Mul(expTP, Mul(sRate, cLoss)),
                          Mul(Num(contacts), cCost))
    IN  [profit    |-> profit,
         contacts  |-> contacts,
         tp        |-> tp,
         fp        |-> fp,
         precision |-> IF ~S.hasActual THEN null
                       ELSE IF tp + fp > 0 THEN Frac(tp, tp + fp) ELSE Num(0),
         recall    |-> IF ~S.hasActual THEN null
                       ELSE IF totalPos > 0 THEN Frac(tp, totalPos) ELSE Num(0),
         contacted |-> contacted]

\* render() of src/decision_tool.js: the values written to the page
renderBasic(S, contactsValue, costValue, lossValue, rateValue) ==
    LET topN  == contactsValue
        cCost == toNumber(costValue, Num(DefaultContactCost))
        cLoss == toNumber(lossValue, Num(DefaultChurnLoss))
        sRate == toNumber(rateValue, Frac(1, 4))
        res   == computePolicy(S, topN, cCost, cLoss, sRate)
    IN  [label          |-> topN,
         profitValue    |-> res.profit,
         contactsValue  |-> res.contacts,
         precisionValue |-> res.precision,
         recallValue    |-> res.recall]

render(S, contactsValue, costValue, lossValue, rateValue) ==
    IF S.page = "part_000"
    THEN renderTool(S, contactsValue, costValue, lossValue, rateValue)
    ELSE renderBasic(S, contactsValue, costValue, lossValue, rateValue)

(***************************************************************************)
(* Input files: the array parseCSV returns.  Each record carries its line  *)
(* number as customer_id; actual_churn is undefined on every record when   *)
(* the header has no such column and a cell text on every record when it   *)
(* has.                                                                    *)
(***************************************************************************)
LabelledLines == [churn_probability : RiskCells, actual_churn : LabelCells]

UnlabelledLines == [churn_probability : RiskCells, actual_churn : {undefined}]

WithIds(lines) ==
    Array([i \in 1..Len(lines) |->
            [customer_id       |-> i,
             churn_probability |-> lines[i].churn_probability,
             actual_churn      |-> lines[i].actual_churn]])

SmallFiles ==
    { WithIds(l) : l \in UNION { [1..n -> LabelledLines] \cup [1..n -> UnlabelledLines]
                                 : n \in 0..MaxRows } }

\* Large files in three shapes: unlabelled, labelled with every third line a
\* churner, labelled with an empty label cell on every second line.
LargeSizes == {0, 1, 50, 51, 100, 101, MaxLargeRows}

LargeFile(n, shape) ==
    Array([i \in 1..n |->
            [customer_id       |-> i,
             churn_probability |-> IF i % 4 = 0 THEN Cell("1") ELSE Cell("0.5"),
             actual_churn      |-> CASE shape = 1 -> undefined
                                     [] shape = 2 -> IF i % 3 = 0 THEN Cell("1") ELSE Cell("0")
                                     [] OTHER     -> IF i % 2 = 0 THEN Cell("") ELSE Cell("1")]])

LargeFiles == { LargeFile(n, k) : n \in LargeSizes, k \in 1..3 }

(***************************************************************************)
(* Array.prototype.sort with the comparator (a, b) => b.p - a.p.  The      *)
(* language requires the sort to be stable: s[j] ends up in front of s[i]  *)
(* when the comparator puts it first, or calls them equal and j < i.       *)
(***************************************************************************)
\* the comparator with its operands exchanged: ascending order
compareAscending(a, b) == Sub(a.churn_probability, b.churn_probability)

compare(a, b) == Sub(b.churn_probability, a.churn_probability)

Before(s, j, i) ==
    \/ Lt(compare(s[j], s[i]), Num(0))
    \/ (~Lt(compare(s[j], s[i]), Num(0)) /\ ~Lt(Num(0), compare(s[j], s[i])) /\ j < i)

sort(s) ==
    LET n    == Len(s)
        rank == Array([i \in 1..n |-> 1 + Cardinality({j \in 1..n : Before(s, j, i)})])
    IN  Array([k \in 1..n |-> s[CHOOSE i \in 1..n : rank[i] = k]])

\* rows = parsed.map(...) of src/unnamed/part_000
normalizeTool(r) ==
    [customer_id       |-> r.customer_id,
     churn_probability |-> toNumber(r.churn_probability, Num(0)),
     actual_churn      |-> IF r.actual_churn = undefined \/ r.actual_churn = Cell("")
                           THEN undefined
                           ELSE toNumber(r.actual_churn, Num(0))]

\* rows = parsed.map(...) of src/decision_tool.js
normalizeBasic(r) ==
    [customer_id       |-> r.customer_id,
     churn_probability |-> toNumber(r.churn_probability, Num(0)),
     actual_churn      |-> IF r.actual_churn # undefined
                           THEN toNumber(r.actual_churn, Num(0))
                           ELSE undefined]

some(s) == \E i \in 1..Len(s) : s[i].actual_churn # undefined

computeBaseRate(s, labelled) ==
    IF labelled THEN Div(Num(CountChurn(s)), Num(Len(s)))
    ELSE Div(SumProb(s), Num(Len(s)))

(***************************************************************************)
(* State machine                                                           *)
(***************************************************************************)
Pages == {"part_000", "decision_tool"}

CapacityInputs == (0 - 1)..(MaxRows + 1)

LargeCapacityInputs == {0 - 1, 0, 50, 100, MaxLargeRows, MaxLargeRows + 1}

CostInputs == {Num(0)}

LossInputs == {Num(0)}

RateInputs == {Frac(15, 100)}

Presets == {"saas", "telecom", "bank"}

Init ==
    /\ page \in Pages
    /\ pc = "loading"
    /\ rows = <<>>
    /\ hasActual = FALSE
    /\ baseRate = null
    /\ maxContacts = DefaultContacts
    /\ contactCost = Num(DefaultContactCost)
    /\ churnLoss = Num(DefaultChurnLoss)
    /\ saveRate = Frac(1, 4)
    /\ listeners = FALSE
    /\ view = [blank |-> TRUE]

\* The module-level state the engine functions read
State == [page |-> page, rows |-> rows, hasActual |-> hasActual,
          baseRate |-> baseRate]

\* init() with the listeners wired before the response text is awaited
fetchedWiring ==
    /\ pc = "loading"
    /\ pc' = "reading"
    /\ listeners' = TRUE
    /\ UNCHANGED <<page, rows, hasActual, baseRate, maxContacts, contactCost,
                   churnLoss, saveRate, view>>

\* init() up to its second await: the fetch has resolved with an ok response
fetched ==
    /\ pc = "loading"
    /\ pc' = "reading"
    /\ UNCHANGED <<page, rows, hasActual, baseRate, maxContacts, contactCost,
                   churnLoss, saveRate, listeners, view>>

\* init() once the text has arrived and parsed: everything from the map to
\* render(), which runs to completion before any event is dispatched
init(parsed) ==
    /\ pc = "reading"
    /\ LET mapped   == Array([i \in 1..Len(parsed) |->
                                IF page = "part_000" THEN normalizeTool(parsed[i])
                                ELSE normalizeBasic(parsed[i])])
           labelled == some(mapped)
           S        == [page      |-> page,
                        rows      |-> sort(mapped),
                        hasActual |-> labelled,
                        baseRate  |-> IF page = "part_000"
                                      THEN computeBaseRate(mapped, labelled)
                                      ELSE baseRate]
           value    == IF maxContacts > Len(mapped)
                       THEN MinI(ResetContacts, Len(mapped))
                       ELSE maxContacts
       IN  /\ rows' = S.rows
           /\ hasActual' = S.hasActual
           /\ baseRate' = S.baseRate
           /\ maxContacts' = value
           /\ view' = render(S, value, contactCost, churnLoss, saveRate)
    /\ listeners' = TRUE
    /\ pc' = "ready"
    /\ UNCHANGED <<page, contactCost, churnLoss, saveRate>>

\* init() when the fetch rejects or is not ok (while loading), or the text or
\* the parse throws (while reading): the catch block
initFailed ==
    /\ pc \in {"loading", "reading"}
    /\ pc' = "failed"
    /\ view' = [error |-> TRUE]
    /\ UNCHANGED <<page, rows, hasActual, baseRate, maxContacts, contactCost,
                   churnLoss, saveRate, listeners>>

\* the capacity listener with an evaluation that takes its contacted rows
\* out of rows (splice) instead of copying them (slice)
inputMaxContactsSplicing(v) ==
    /\ listeners
    /\ maxContacts' = v
    /\ view' = render(State, v, contactCost, churnLoss, saveRate)
    /\ rows' = SubSeq(rows, clamp(v, 0, Len(rows)) + 1, Len(rows))
    /\ UNCHANGED <<page, pc, hasActual, baseRate, contactCost, churnLoss,
                   saveRate, listeners>>

\* "input" listeners: the element's value has changed, then render()
inputMaxContacts(v) ==
    /\ listeners
    /\ maxContacts' = v
    /\ view' = render(State, v, contactCost, churnLoss, saveRate)
    /\ UNCHANGED <<page, pc, rows, hasActual, baseRate, contactCost, churnLoss,
                   saveRate, listeners>>

inputContactCost(v) ==
    /\ listeners
    /\ contactCost' = v
    /\ view' = render(State, maxContacts, v, churnLoss, saveRate)
    /\ UNCHANGED <<page, pc, rows, hasActual, baseRate, maxContacts, churnLoss,
                   saveRate, listeners>>

inputChurnLoss(v) ==
    /\ listeners
    /\ churnLoss' = v
    /\ view' = render(State, maxContacts, contactCost, v, saveRate)
    /\ UNCHANGED <<page, pc, rows, hasActual, baseRate, maxContacts, contactCost,
                   saveRate, listeners>>

inputSaveRate(v) ==
    /\ listeners
    /\ saveRate' = v
    /\ view' = render(State, maxContacts, contactCost, churnLoss, v)
    /\ UNCHANGED <<page, pc, rows, hasActual, baseRate, maxContacts, contactCost,
                   churnLoss, listeners>>

PresetContactCost(preset) ==
    CASE preset = "saas" -> Num(2) [] preset = "telecom" -> Num(20) [] OTHER -> Num(10)

PresetChurnLoss(preset) ==
    CASE preset = "saas" -> Num(120) [] preset = "telecom" -> Num(200) [] OTHER -> Num(400)

PresetSaveRate(preset) ==
    CASE preset = "saas" -> Frac(8, 100) [] preset = "telecom" -> Frac(25, 100)
      [] OTHER -> Frac(15, 100)

\* Math.min(Number(els.maxContacts.max || 5000), cap): max is the non-empty
\* text String(rows.length) that init wrote
PresetMaxContacts(preset) ==
    CASE preset = "saas" -> MinI(Len(rows), 5000)
      [] preset = "telecom" -> MinI(Len(rows), 1000)
      [] OTHER -> MinI(Len(rows), 1500)

applyPreset(preset) ==
    /\ listeners
    /\ page = "part_000"
    /\ contactCost' = PresetContactCost(preset)
    /\ churnLoss' = PresetChurnLoss(preset)
    /\ saveRate' = PresetSaveRate(preset)
    /\ maxContacts' = PresetMaxContacts(preset)
    /\ view' = render(State, PresetMaxContacts(preset), PresetContactCost(preset),
                      PresetChurnLoss(preset), PresetSaveRate(preset))
    /\ UNCHANGED <<page, pc, rows, hasActual, baseRate, listeners>>

\* window "resize" listener of the business page: render() with the values
\* the elements hold
resize ==
    /\ listeners
    /\ page = "part_000"
    /\ view' = render(State, maxContacts, contactCost, churnLoss, saveRate)
    /\ UNCHANGED <<page, pc, rows, hasActual, baseRate, maxContacts, contactCost,
                   churnLoss, saveRate, listeners>>

\* click on the download button, whose onclick closure render() installed:
\* it evaluates the policy again with the values of that render and hands
\* the contacted slice (a copy) to downloadTargetsCSV, which builds the file
\* text and a detached anchor; neither assigns a variable of the page
download ==
    /\ pc = "ready"
    /\ UNCHANGED vars

Next ==
    \/ fetched
    \/ \E f \in SmallFiles : init(f)
    \/ initFailed
    \/ \E v \in CapacityInputs : inputMaxContacts(v)
    \/ \E v \in CostInputs : inputContactCost(v)
    \/ \E v \in LossInputs : inputChurnLoss(v)
    \/ \E v \in RateInputs : inputSaveRate(v)
    \/ \E p \in Presets : applyPreset(p)
    \/ resize
    \/ download

Spec == Init /\ [][Next]_vars

NextLarge ==
    \/ fetched
    \/ \E f \in LargeFiles : init(f)
    \/ initFailed
    \/ \E v \in LargeCapacityInputs : inputMaxContacts(v)
    \/ \E v \in CostInputs : inputContactCost(v)
    \/ \E v \in LossInputs : inputChurnLoss(v)
    \/ \E v \in RateInputs : inputSaveRate(v)
    \/ \E p \in Presets : applyPreset(p)
    \/ resize
    \/ download

SpecLarge == Init /\ [][NextLarge]_vars

(***************************************************************************)
(* Properties                                                              *)
(***************************************************************************)
Ready == pc = "ready"

Tool == pc = "ready" /\ page = "part_000"

Basic == pc = "ready" /\ page = "decision_tool"

\* every requested capacity from one below the range to one above it
Capacities == (0 - 1)..(Len(rows) + 1)

Clamped(c) == IF c < 0 THEN 0 ELSE IF c > Len(rows) THEN Len(rows) ELSE c

Evaluate(c) == profitFor(State, c, contactCost, churnLoss, saveRate)

Policy(c) == computePolicy(State, c, contactCost, churnLoss, saveRate)

\* C1: for every requested capacity c the evaluation contacts exactly
\* N = clamp(c, 0, populationSize) customers, and the contacted slice is the
\* first N entries of the ranked population in ranked order (profitFor on
\* the business page, computePolicy on the basic page, whose contacts
\* field is N too).
C1_ContactsArePrefix ==
    Ready =>
      \A c \in Capacities :
        LET N == Clamped(c) IN
        /\ Tool  => /\ Len(Evaluate(c).contacted) = N
                    /\ \A i \in 1..N : Evaluate(c).contacted[i] = rows[i]
        /\ Basic => /\ Policy(c).contacts = N
                    /\ Len(Policy(c).contacted) = N
                    /\ \A i \in 1..N : Policy(c).contacted[i] = rows[i]

C1_Witness ==
    /\ Tool
    /\ Len(rows) = 2
    /\ maxContacts = 3
    /\ Len(Evaluate(maxContacts).contacted) = 2

\* expected true positives of the first N ranked entries, counted from the
\* definition: labelled churners when the dataset is labelled, else the sum
\* of the risk scores
RECURSIVE RiskSum(_)
RiskSum(N) == IF N = 0 THEN Num(0) ELSE Add(RiskSum(N - 1), rows[N].churn_probability)

ExpectedTruePositives(N) ==
    IF hasActual
    THEN Num(Cardinality({i \in 1..N : rows[i].actual_churn = Num(1)}))
    ELSE RiskSum(N)

\* C2: cost = N x contactCost and
\* profit = expectedTruePositives x (saveRate x churnLoss) - cost, where
\* expectedTruePositives is the count of contacted entries labelled churn on
\* a labelled dataset and the sum of the contacted risk scores otherwise
\* (N the clamped capacity).
C2_CostAndProfit ==
    Ready =>
      \A c \in Capacities :
        LET N    == Clamped(c)
            eTP  == ExpectedTruePositives(N)
            cost == Mul(Num(N), contactCost)
            gain == Mul(eTP, Mul(saveRate, churnLoss))
        IN
        /\ Tool  => /\ Evaluate(c).tpExp = eTP
                    /\ Evaluate(c).cost = cost
                    /\ Evaluate(c).profit = Sub(gain, cost)
        /\ Basic => Policy(c).profit = Sub(gain, cost)

\* labelled, two customers of whom one churner, bank preset (cost 10, loss
\* 400, save rate 0.15) at capacity 2: eTP 1, cost 20, profit 60 - 20 = 40
C2_Witness ==
    /\ Tool
    /\ hasActual
    /\ maxContacts = 2
    /\ contactCost = Num(10) /\ churnLoss = Num(400) /\ saveRate = Frac(15, 100)
    /\ Evaluate(2).tpExp = Num(1)
    /\ view.exec.costValue = Num(20)
    /\ view.exec.profitValue = Num(40)

\* what render() reports when it is given the clamped capacity
ClampedView ==
    render(State, Clamped(maxContacts), contactCost, churnLoss, saveRate)

\* C3: for a requested capacity below 0 or above populationSize every value
\* a recomputation reports for the model policy (contacts, cost, profit,
\* ROI, breakeven save rate, the narrative's breakeven) equals the value
\* reported for the clamped capacity.
C3_ReportsAreClamped ==
    Tool =>
      /\ view.compare[1].contacts = ClampedView.compare[1].contacts
      /\ view.exec.costValue = ClampedView.exec.costValue
      /\ view.exec.profitValue = ClampedView.exec.profitValue
      /\ view.exec.roiValue = ClampedView.exec.roiValue
      /\ view.exec.breakevenValue = ClampedView.exec.breakevenValue
      /\ view.interpretation = ClampedView.interpretation

\* C4: once init has built the population, rows is sorted by
\* churn_probability in non-increasing order and entries of equal
\* churn_probability keep the order of the input file (customer_id is the
\* line number), in every later state.
C4_SortedStable ==
    Ready =>
      \A i, j \in 1..Len(rows) :
        i < j =>
          /\ Le(rows[j].churn_probability, rows[i].churn_probability)
          /\ rows[i].churn_probability = rows[j].churn_probability
               => rows[i].customer_id < rows[j].customer_id

\* the sort moved the second line in front of the first, and an input event
\* has happened since
C4_Witness ==
    /\ Ready
    /\ Len(rows) = 2
    /\ rows[1].customer_id = 2
    /\ Lt(rows[2].churn_probability, rows[1].churn_probability)
    /\ maxContacts = 1

CurveHolds(curve) ==
    /\ Len(curve) >= 1
    /\ curve[1].capacity = 0
    /\ curve[Len(curve)].capacity = Len(rows)
    /\ \A k \in 1..(Len(curve) - 1) : curve[k].capacity < curve[k + 1].capacity
    /\ \A k \in 1..Len(curve) : curve[k].profit = Evaluate(curve[k].capacity).profit

\* C5 as stated: for every population size n, 0 included, the curve starts
\* at capacity 0, ends at capacity n, ascends strictly and carries the
\* evaluated profit at every point.
C5_CurveForEverySize == Tool => CurveHolds(view.curve)

\* C5 (amended): for every population size n >= 1 the curve starts at
\* capacity 0, ends at capacity exactly n, has strictly ascending capacities
\* and every point's profit equals the evaluation at its capacity; for n = 0
\* the curve is empty.
C5_CurveForNonEmpty ==
    Tool => IF Len(rows) = 0 THEN view.curve = <<>> ELSE CurveHolds(view.curve)

\* 101 customers: grid points 0, 50, 100 and the forced last point 101
C5_Witness ==
    /\ Tool
    /\ Len(rows) = 101
    /\ Len(view.curve) = 4
    /\ view.curve[3].capacity = 100
    /\ view.curve[4].capacity = 101

RecallAt(N) ==
    IF page = "part_000"
    THEN computePrecisionRecall(State, slice(rows, 0, N)).recall
    ELSE Policy(N).recall

PrecisionAt(N) ==
    IF page = "part_000"
    THEN computePrecisionRecall(State, slice(rows, 0, N)).precision
    ELSE Policy(N).precision

Positives == Cardinality({i \in 1..Len(rows) : rows[i].actual_churn = Num(1)})

\* C6 as stated: for every labelled population, recall at capacity =
\* population size is 1.
C6_FullRecallAlways == (Ready /\ hasActual) => RecallAt(Len(rows)) = Num(1)

\* C6 (amended): for every labelled population with at least one positive,
\* recall at capacity = population size is 1; with no positive it is 0.
C6_FullRecallWithPositives ==
    (Ready /\ hasActual) =>
      RecallAt(Len(rows)) = (IF Positives > 0 THEN Num(1) ELSE Num(0))

C6_Witness ==
    /\ Tool
    /\ hasActual
    /\ Len(rows) = 2
    /\ Positives = 1
    /\ maxContacts = 2
    /\ RecallAt(maxContacts) = Num(1)

InUnit(x) == IsNumber(x) /\ Le(Num(0), x) /\ Le(x, Num(1))

\* C7: on a labelled population, for every capacity N in [0, n], precision
\* and recall of the top-N slice lie in [0,1], precision is 0 at N = 0,
\* recall is 0 when the population has no positives, and recall at N + 1 is
\* at least recall at N.
C7_PrecisionRecallRange ==
    (Ready /\ hasActual) =>
      \A N \in 0..Len(rows) :
        /\ InUnit(PrecisionAt(N))
        /\ InUnit(RecallAt(N))
        /\ N = 0 => PrecisionAt(N) = Num(0)
        /\ Positives = 0 => RecallAt(N) = Num(0)
        /\ N < Len(rows) => Le(RecallAt(N), RecallAt(N + 1))

\* recall rises strictly from capacity 1 to capacity 2 while precision is
\* strictly between 0 and 1
C7_Witness ==
    /\ Ready
    /\ hasActual
    /\ Len(rows) = 2
    /\ Lt(RecallAt(1), RecallAt(2))
    /\ PrecisionAt(2) = Frac(1, 2)

RoiSamples == {Num(0 - 20), Num(0 - 1), Num(0), Num(1), Num(20), Frac(3, 2)}

\* C8: roi(profit, cost) is the sentinel exactly when cost <= 0 and is
\* otherwise the number profit / cost; at capacity 0 profit, cost and
\* expected true positives are 0 and the ROI is the sentinel.
C8_RoiSentinel ==
    Tool =>
      /\ \A c \in Capacities :
           LET r == Evaluate(c) IN
           /\ (roi(r.profit, r.cost) = null) <=> Le(r.cost, Num(0))
           /\ Lt(Num(0), r.cost) =>
                /\ IsNumber(roi(r.profit, r.cost))
                /\ Mul(roi(r.profit, r.cost), r.cost) = r.profit
      /\ \A p \in RoiSamples, k \in RoiSamples :
           /\ (roi(p, k) = null) <=> Le(k, Num(0))
           /\ Lt(Num(0), k) => IsNumber(roi(p, k)) /\ Mul(roi(p, k), k) = p
      /\ LET z == Evaluate(0) IN
           /\ z.profit = Num(0) /\ z.cost = Num(0) /\ z.tpExp = Num(0)
           /\ roi(z.profit, z.cost) = null

\* capacity 0 on a non-empty population with a positive contact cost
C8_Witness ==
    /\ Tool
    /\ Len(rows) > 0
    /\ maxContacts = 0
    /\ Lt(Num(0), contactCost)
    /\ view.exec.roiValue = null
    /\ view.exec.profitValue = Num(0)

RateSamples == {Num(0), Frac(1, 100), Frac(1, 40), Frac(1, 20), Frac(1, 10),
                Frac(1, 4), Num(1)}

\* C9: breakEvenSaveRate(eTP, capacity, churnLoss, contactCost) is the
\* sentinel exactly when eTP <= 0 or churnLoss <= 0; otherwise the profit
\* formula at the returned save rate gives zero, and every smaller save rate
\* gives a negative profit when capacity x contactCost > 0.
C9_BreakEven ==
    Tool =>
      \A N \in 0..Len(rows) :
        LET r  == Evaluate(N)
            be == breakEvenSaveRate(r.tpExp, N, churnLoss, contactCost)
        IN
        /\ (be = null) <=> (Le(r.tpExp, Num(0)) \/ Le(churnLoss, Num(0)))
        /\ be # null =>
             /\ IsNumber(be)
             /\ Sub(Mul(r.tpExp, Mul(be, churnLoss)), Mul(Num(N), contactCost)) = Num(0)
             /\ profitFor(State, N, contactCost, churnLoss, be).profit = Num(0)
             /\ \A sr \in RateSamples :
                  (Lt(sr, be) /\ Lt(Num(0), Mul(Num(N), contactCost)))
                    => Lt(profitFor(State, N, contactCost, churnLoss, sr).profit, Num(0))

\* one churner contacted at capacity 1, cost 10, loss 400: breakeven 1/40
C9_Witness ==
    /\ Tool
    /\ maxContacts = 1
    /\ contactCost = Num(10)
    /\ churnLoss = Num(400)
    /\ view.exec.breakevenValue = Frac(1, 40)

\* C10: a population marked labelled never counts a record whose label is
\* missing as a negative: the false positives of every top-N slice are the
\* contacted records that carry a label other than 1.
C10_NoMissingLabelAsNegative ==
    (Tool /\ hasActual) =>
      \A N \in 0..Len(rows) :
        computePrecisionRecall(State, slice(rows, 0, N)).fp
          = Cardinality({i \in 1..N : /\ rows[i].actual_churn # undefined
                                      /\ rows[i].actual_churn # Num(1)})

\* zero or the undefined sentinel, and in particular not NaN
ZeroOrSentinel(x) == x = null \/ x = Num(0)

\* C11: with a population of size 0 every value a recomputation produces
\* (evaluate, randomBaseline, doNothingBaseline, roi, breakEvenSaveRate,
\* precisionRecall, profitCurve) and the once-computed base rate is zero or
\* the undefined sentinel, never NaN.
C11_EmptyPopulationIsClean ==
    (Ready /\ Len(rows) = 0) =>
      /\ Tool =>
           /\ ZeroOrSentinel(baseRate)
           /\ ZeroOrSentinel(view.exec.profitValue)
           /\ ZeroOrSentinel(view.exec.costValue)
           /\ ZeroOrSentinel(view.exec.roiValue)
           /\ ZeroOrSentinel(view.exec.breakevenValue)
           /\ ZeroOrSentinel(view.exec.churners)
           /\ ZeroOrSentinel(view.exec.precision)
           /\ \A k \in 1..3 : /\ ZeroOrSentinel(view.compare[k].tp)
                              /\ ZeroOrSentinel(view.compare[k].profit)
           /\ view.curve = <<>>
           /\ view.interpretation.verdict = "profitable"
           /\ ZeroOrSentinel(view.interpretation.amount)
           /\ ZeroOrSentinel(view.interpretation.be)
           /\ ZeroOrSentinel(view.interpretation.roi)
      /\ Basic =>
           /\ ZeroOrSentinel(view.profitValue)
           /\ view.contactsValue = 0
           /\ ZeroOrSentinel(view.precisionValue)
           /\ ZeroOrSentinel(view.recallValue)

\* the capacity the narrative compares against: one step further, at most
\* the whole population
NextCapacity ==
    LET step == IF Len(rows) \div 50 > 200 THEN Len(rows) \div 50 ELSE 200
    IN  IF Len(rows) < maxContacts + step THEN Len(rows) ELSE maxContacts + step

MarginalDelta == Sub(Evaluate(NextCapacity).profit, Evaluate(maxContacts).profit)

NotProfitableText ==
    [verdict |-> "not profitable",
     levers  |-> <<"reduce contact cost", "increase save rate",
                   "focus on fewer customers">>]

\* C12: the narrative gives the 'profitable' verdict if and only if the
\* profit at the current capacity is >= 0; it then reports the marginal
\* delta evaluate(min(populationSize, capacity + step)).profit -
\* evaluate(capacity).profit, as an increase exactly when the delta is >= 0
\* (and as a reduction by its magnitude otherwise); when the profit is < 0 it
\* is the fixed not-profitable text with the three levers, whatever the
\* delta, and names no capacity.
C12_Narrative ==
    Tool =>
      /\ (view.interpretation.verdict = "profitable")
           <=> Le(Num(0), Evaluate(maxContacts).profit)
      /\ Le(Num(0), Evaluate(maxContacts).profit) =>
           /\ view.interpretation.increase <=> Le(Num(0), MarginalDelta)
           /\ Le(Num(0), MarginalDelta) =>
                view.interpretation.amount = MarginalDelta
           /\ Lt(MarginalDelta, Num(0)) =>
                view.interpretation.amount = Neg(MarginalDelta)
      /\ Lt(Evaluate(maxContacts).profit, Num(0)) =>
           view.interpretation = NotProfitableText

\* a profitable verdict whose next capacity is capacity + step, below the
\* population size, and whose delta is a reduction
C12_Witness ==
    /\ Tool
    /\ maxContacts >= 0
    /\ NextCapacity = maxContacts + 200
    /\ NextCapacity < Len(rows)
    /\ view.interpretation.verdict = "profitable"
    /\ ~view.interpretation.increase
    /\ Lt(MarginalDelta, Num(0))

\* C13: once init has built the population, every event (input change,
\* preset click, window resize, download click) leaves rows (membership,
\* order and field values), hasActual and baseRate as they were.
C13_EventsKeepPopulation ==
    [][pc = "ready" =>
         /\ rows' = rows
         /\ hasActual' = hasActual
         /\ baseRate' = baseRate]_vars

\* input and preset events have acted on a two-row labelled population: the
\* capacity -1 is a typed value, the cost 10 comes from the bank preset
C13_Witness ==
    /\ Tool
    /\ Len(rows) = 2
    /\ hasActual
    /\ baseRate = Frac(1, 2)
    /\ maxContacts = 0 - 1
    /\ contactCost = Num(10)
    /\ view.exec.top = 0 - 1

\* render has run
Rendered == "label" \in DOMAIN view

\* what init leaves behind: rows sorted, hasActual and baseRate computed from
\* all of rows
Built ==
    /\ \A i, j \in 1..Len(rows) :
         i < j => Le(rows[j].churn_probability, rows[i].churn_probability)
    /\ hasActual = some(rows)
    /\ page = "part_000" => baseRate = computeBaseRate(rows, hasActual)

\* C14: render has run only in states where init has completed its one
\* step after the fetch (rows assigned and sorted, hasActual and baseRate
\* computed); listeners exist only from that step on; and once the fetch or
\* the parse has failed no listener is registered and render is not invoked
\* for the rest of the session.
C14_RenderOnlyAfterInit ==
    /\ [](/\ Rendered => pc = "ready"
          /\ listeners => pc = "ready"
          /\ pc = "ready" => (Rendered /\ listeners /\ Built)
          /\ pc = "failed" => (~Rendered /\ ~listeners))
    /\ [][pc = "failed" => (pc' = "failed" /\ view' = view /\ listeners' = listeners)]_vars

\* init has rendered a population whose file order the sort changed
C14_Witness ==
    /\ pc = "ready"
    /\ Rendered
    /\ listeners
    /\ Len(rows) = 2
    /\ rows[1].customer_id = 2
    /\ view.label = maxContacts

====
